---- MODULE Spec2Model ----
(***************************************************************************)
(* Model of the intrusive tree linkage operations of src/index.ts:         *)
(* nodes with parent / first / last / nextSibling / prevSibling fields,    *)
(* the validity predicates and the four insertion operations addFirst,     *)
(* addLast, addAfter and addBefore.                                        *)
(***************************************************************************)
EXTENDS Integers, Sequences, FiniteSets, TLC

\* Number of node objects of the main specification.
NumNodes == 4

\* Number of node objects of the specification that starts from a node
\* constructed with arbitrary field values.
NumCorruptNodes == 3

\* Number of objects the constructors are called for.
MaxObjects == 4

\* The null reference.
Null == 0

Nodes == 1..NumNodes

CorruptNodes == 1..NumCorruptNodes

VARIABLES heap, result, threads

vars == <<heap, result, threads>>

\* ---------------------------------------------------------------------
\* Errors: the message of the Error thrown by assert, or the TypeError the
\* runtime throws when a property of null is read.

NoError == "none"

InvalidChildMsg == "cannot add node because it is invalid"

InvalidParentMsg == "cannot add to parent because it is invalid"

AlreadyAttachedMsg == "expect node to add not currently parented"

NotAChildMsg == "cannot add node as a sibling to a root"

InvalidIsParentMsg == "cannot check if node is parent: node is invalid"

TypeErrorMsg == "TypeError: cannot read property of null"

\* ---------------------------------------------------------------------
\* Constructors

createNode == [parent |-> Null, first |-> Null, last |-> Null,
               nextSibling |-> Null, prevSibling |-> Null]

createRoot == [first |-> Null, last |-> Null]

\* createLeaf with sibling links that start at an existing object.
createLeaf_linked == [parent |-> Null, nextSibling |-> 1, prevSibling |-> 1]

createLeaf == [parent |-> Null, nextSibling |-> Null, prevSibling |-> Null]

\* ---------------------------------------------------------------------
\* Reading a property: an object without the property gives undefined, which
\* like null counts as false.

Undefined == Null - 1

Prop(obj, f) == IF f \in DOMAIN obj THEN obj[f] ELSE Undefined

Truthy(v) == v \notin {Null, Undefined}

\* The boolean values a function returns to its caller, kept apart from
\* object references.
JsFalse == Undefined - 1

JsTrue == JsFalse - 1

ToBoolean(v) == IF Truthy(v) THEN JsTrue ELSE JsFalse

\* ---------------------------------------------------------------------
\* Outcome of a call: the heap it leaves, the error it threw (NoError when it
\* returned) and the value it returned.

Return(h, v) == [heap |-> h, error |-> NoError, ret |-> v]

Throw(h, msg) == [heap |-> h, error |-> msg, ret |-> Null]

\* ---------------------------------------------------------------------
\* Predicates

isChild(h, node) == Truthy(Prop(h[node], "parent"))

isRoot(h, node) == ~Truthy(Prop(h[node], "parent"))

isValidParent(h, node) == (h[node].first # Null) = (h[node].last # Null)

isValidChild(h, node) ==
    \/ h[node].parent # Null
    \/ ~(h[node].nextSibling # Null \/ h[node].prevSibling # Null)

isValidNode(h, node) == isValidParent(h, node) /\ isValidChild(h, node)

\* isParent without the validity assertion.
isParent_noCheck(h, node) == Return(h, ToBoolean(h[node].first))

isParent(h, node) ==
    IF ~isValidParent(h, node)
    THEN Throw(h, InvalidIsParentMsg)
    ELSE Return(h, ToBoolean(h[node].first))

\* ---------------------------------------------------------------------
\* Insertion operations.  Each is the sequence of reads, checks and writes
\* of the source function, applied to heap h.

\* addFirst without the update of parent.last on an empty parent.
addFirst_lastUnset(h, parent, node) ==
    IF ~isValidChild(h, node) THEN Throw(h, InvalidChildMsg)
    ELSE IF ~isValidParent(h, parent) THEN Throw(h, InvalidParentMsg)
    ELSE IF ~isRoot(h, node) THEN Throw(h, AlreadyAttachedMsg)
    ELSE
      LET first == h[parent].first
          h1 == IF first # Null THEN [h EXCEPT ![node].nextSibling = first] ELSE h
          h2 == IF first # Null THEN [h1 EXCEPT ![first].prevSibling = node] ELSE h1
          h3 == [h2 EXCEPT ![node].parent = parent]
          h4 == [h3 EXCEPT ![parent].first = node]
      IN Return(h4, node)

\* addFirst without the back link first.prevSibling = node.
addFirst_noBackLink(h, parent, node) ==
    IF ~isValidChild(h, node) THEN Throw(h, InvalidChildMsg)
    ELSE IF ~isValidParent(h, parent) THEN Throw(h, InvalidParentMsg)
    ELSE IF ~isRoot(h, node) THEN Throw(h, AlreadyAttachedMsg)
    ELSE
      LET first == h[parent].first
          h1 == IF first # Null THEN [h EXCEPT ![node].nextSibling = first] ELSE h
          h3 == [h1 EXCEPT ![node].parent = parent]
          h4 == [h3 EXCEPT ![parent].first = node]
          h5 == IF h4[parent].last = Null
                THEN [h4 EXCEPT ![parent].last = node] ELSE h4
      IN Return(h5, node)

addFirst(h, parent, node) ==
    IF ~isValidChild(h, node) THEN Throw(h, InvalidChildMsg)
    ELSE IF ~isValidParent(h, parent) THEN Throw(h, InvalidParentMsg)
    ELSE IF ~isRoot(h, node) THEN Throw(h, AlreadyAttachedMsg)
    ELSE
      LET first == h[parent].first
          h1 == IF first # Null THEN [h EXCEPT ![node].nextSibling = first] ELSE h
          h2 == IF first # Null THEN [h1 EXCEPT ![first].prevSibling = node] ELSE h1
          h3 == [h2 EXCEPT ![node].parent = parent]
          h4 == [h3 EXCEPT ![parent].first = node]
          h5 == IF h4[parent].last = Null
                THEN [h4 EXCEPT ![parent].last = node] ELSE h4
      IN Return(h5, node)

\* addLast without the check that node is a root.
addLast_noRootCheck(h, parent, node) ==
    IF ~isValidChild(h, node) THEN Throw(h, InvalidChildMsg)
    ELSE IF ~isValidParent(h, parent) THEN Throw(h, InvalidParentMsg)
    ELSE
      LET last == h[parent].last
          h1 == IF last # Null THEN [h EXCEPT ![node].prevSibling = last] ELSE h
          h2 == IF last # Null THEN [h1 EXCEPT ![last].nextSibling = node] ELSE h1
          h3 == [h2 EXCEPT ![node].parent = parent]
          h4 == [h3 EXCEPT ![parent].last = node]
          h5 == IF h4[parent].first = Null
                THEN [h4 EXCEPT ![parent].first = node] ELSE h4
      IN Return(h5, node)

\* addLast that sets parent.first on every call.
addLast_firstAlways(h, parent, node) ==
    IF ~isValidChild(h, node) THEN Throw(h, InvalidChildMsg)
    ELSE IF ~isValidParent(h, parent) THEN Throw(h, InvalidParentMsg)
    ELSE IF ~isRoot(h, node) THEN Throw(h, AlreadyAttachedMsg)
    ELSE
      LET last == h[parent].last
          h1 == IF last # Null THEN [h EXCEPT ![node].prevSibling = last] ELSE h
          h2 == IF last # Null THEN [h1 EXCEPT ![last].nextSibling = node] ELSE h1
          h3 == [h2 EXCEPT ![node].parent = parent]
          h4 == [h3 EXCEPT ![parent].last = node]
          h5 == [h4 EXCEPT ![parent].first = node]
      IN Return(h5, node)

\* addLast without the forward link last.nextSibling = node.
addLast_noFwdLink(h, parent, node) ==
    IF ~isValidChild(h, node) THEN Throw(h, InvalidChildMsg)
    ELSE IF ~isValidParent(h, parent) THEN Throw(h, InvalidParentMsg)
    ELSE IF ~isRoot(h, node) THEN Throw(h, AlreadyAttachedMsg)
    ELSE
      LET last == h[parent].last
          h1 == IF last # Null THEN [h EXCEPT ![node].prevSibling = last] ELSE h
          h3 == [h1 EXCEPT ![node].parent = parent]
          h4 == [h3 EXCEPT ![parent].last = node]
          h5 == IF h4[parent].first = Null
                THEN [h4 EXCEPT ![parent].first = node] ELSE h4
      IN Return(h5, node)

addLast(h, parent, node) ==
    IF ~isValidChild(h, node) THEN Throw(h, InvalidChildMsg)
    ELSE IF ~isValidParent(h, parent) THEN Throw(h, InvalidParentMsg)
    ELSE IF ~isRoot(h, node) THEN Throw(h, AlreadyAttachedMsg)
    ELSE
      LET last == h[parent].last
          h1 == IF last # Null THEN [h EXCEPT ![node].prevSibling = last] ELSE h
          h2 == IF last # Null THEN [h1 EXCEPT ![last].nextSibling = node] ELSE h1
          h3 == [h2 EXCEPT ![node].parent = parent]
          h4 == [h3 EXCEPT ![parent].last = node]
          h5 == IF h4[parent].first = Null
                THEN [h4 EXCEPT ![parent].first = node] ELSE h4
      IN Return(h5, node)

\* addAfter without the back link of the old next sibling.
addAfter_noBackLink(h, existingNode, nodeToAdd) ==
    LET parent == h[existingNode].parent IN
    IF parent = Null THEN Throw(h, TypeErrorMsg)
    ELSE
      LET last == (h[parent].last = existingNode) IN
      IF ~isValidChild(h, nodeToAdd) THEN Throw(h, InvalidChildMsg)
      ELSE IF ~isValidParent(h, parent) THEN Throw(h, InvalidParentMsg)
      ELSE IF ~isChild(h, existingNode) THEN Throw(h, NotAChildMsg)
      ELSE IF ~isRoot(h, nodeToAdd) THEN Throw(h, AlreadyAttachedMsg)
      ELSE
        LET h1 == IF ~last
                  THEN [h EXCEPT ![nodeToAdd].nextSibling = h[existingNode].nextSibling]
                  ELSE h
            next == h1[nodeToAdd].nextSibling
        IN
        IF ~last /\ next = Null THEN Throw(h1, TypeErrorMsg)
        ELSE
          LET h2 == h1
              h3 == [h2 EXCEPT ![nodeToAdd].prevSibling = existingNode]
              h4 == [h3 EXCEPT ![existingNode].nextSibling = nodeToAdd]
              h5 == [h4 EXCEPT ![nodeToAdd].parent = parent]
              h6 == IF last THEN [h5 EXCEPT ![parent].last = nodeToAdd] ELSE h5
          IN Return(h6, nodeToAdd)

\* addAfter that links nodeToAdd.prevSibling before the splice.
addAfter_prevFirst(h, existingNode, nodeToAdd) ==
    LET parent == h[existingNode].parent IN
    IF parent = Null THEN Throw(h, TypeErrorMsg)
    ELSE
      LET last == (h[parent].last = existingNode) IN
      IF ~isValidChild(h, nodeToAdd) THEN Throw(h, InvalidChildMsg)
      ELSE IF ~isValidParent(h, parent) THEN Throw(h, InvalidParentMsg)
      ELSE IF ~isChild(h, existingNode) THEN Throw(h, NotAChildMsg)
      ELSE IF ~isRoot(h, nodeToAdd) THEN Throw(h, AlreadyAttachedMsg)
      ELSE
        LET h0 == [h EXCEPT ![nodeToAdd].prevSibling = existingNode]
            h1 == IF ~last
                  THEN [h0 EXCEPT ![nodeToAdd].nextSibling = h0[existingNode].nextSibling]
                  ELSE h0
            next == h1[nodeToAdd].nextSibling
        IN
        IF ~last /\ next = Null THEN Throw(h1, TypeErrorMsg)
        ELSE
          LET h2 == IF ~last THEN [h1 EXCEPT ![next].prevSibling = nodeToAdd] ELSE h1
              h4 == [h2 EXCEPT ![existingNode].nextSibling = nodeToAdd]
              h5 == [h4 EXCEPT ![nodeToAdd].parent = parent]
              h6 == IF last THEN [h5 EXCEPT ![parent].last = nodeToAdd] ELSE h5
          IN Return(h6, nodeToAdd)

\* addAfter that never updates parent.last.
addAfter_lastStale(h, existingNode, nodeToAdd) ==
    LET parent == h[existingNode].parent IN
    IF parent = Null THEN Throw(h, TypeErrorMsg)
    ELSE
      LET last == (h[parent].last = existingNode) IN
      IF ~isValidChild(h, nodeToAdd) THEN Throw(h, InvalidChildMsg)
      ELSE IF ~isValidParent(h, parent) THEN Throw(h, InvalidParentMsg)
      ELSE IF ~isChild(h, existingNode) THEN Throw(h, NotAChildMsg)
      ELSE IF ~isRoot(h, nodeToAdd) THEN Throw(h, AlreadyAttachedMsg)
      ELSE
        LET h1 == IF ~last
                  THEN [h EXCEPT ![nodeToAdd].nextSibling = h[existingNode].nextSibling]
                  ELSE h
            next == h1[nodeToAdd].nextSibling
        IN
        IF ~last /\ next = Null THEN Throw(h1, TypeErrorMsg)
        ELSE
          LET h2 == IF ~last THEN [h1 EXCEPT ![next].prevSibling = nodeToAdd] ELSE h1
              h3 == [h2 EXCEPT ![nodeToAdd].prevSibling = existingNode]
              h4 == [h3 EXCEPT ![existingNode].nextSibling = nodeToAdd]
              h5 == [h4 EXCEPT ![nodeToAdd].parent = parent]
              h6 == h5
          IN Return(h6, nodeToAdd)

addAfter(h, existingNode, nodeToAdd) ==
    LET parent == h[existingNode].parent IN
    \* const last = parent.last === existingNode  reads a property of parent
    IF parent = Null THEN Throw(h, TypeErrorMsg)
    ELSE
      LET last == (h[parent].last = existingNode) IN
      IF ~isValidChild(h, nodeToAdd) THEN Throw(h, InvalidChildMsg)
      ELSE IF ~isValidParent(h, parent) THEN Throw(h, InvalidParentMsg)
      ELSE IF ~isChild(h, existingNode) THEN Throw(h, NotAChildMsg)
      ELSE IF ~isRoot(h, nodeToAdd) THEN Throw(h, AlreadyAttachedMsg)
      ELSE
        LET h1 == IF ~last
                  THEN [h EXCEPT ![nodeToAdd].nextSibling = h[existingNode].nextSibling]
                  ELSE h
            next == h1[nodeToAdd].nextSibling
        IN
        \* nodeToAdd.nextSibling.prevSibling = nodeToAdd  on a null nextSibling
        IF ~last /\ next = Null THEN Throw(h1, TypeErrorMsg)
        ELSE
          LET h2 == IF ~last THEN [h1 EXCEPT ![next].prevSibling = nodeToAdd] ELSE h1
              h3 == [h2 EXCEPT ![nodeToAdd].prevSibling = existingNode]
              h4 == [h3 EXCEPT ![existingNode].nextSibling = nodeToAdd]
              h5 == [h4 EXCEPT ![nodeToAdd].parent = parent]
              h6 == IF last THEN [h5 EXCEPT ![parent].last = nodeToAdd] ELSE h5
          IN Return(h6, nodeToAdd)

\* addBefore without the write of nodeToAdd.parent.
addBefore_noParent(h, existingNode, nodeToAdd) ==
    LET parent == h[existingNode].parent IN
    \* const first = parent.first === existingNode  reads a property of parent
    IF parent = Null THEN Throw(h, TypeErrorMsg)
    ELSE
      LET first == (h[parent].first = existingNode) IN
      IF ~isValidChild(h, nodeToAdd) THEN Throw(h, InvalidChildMsg)
      ELSE IF ~isValidParent(h, parent) THEN Throw(h, InvalidParentMsg)
      ELSE IF ~isChild(h, existingNode) THEN Throw(h, NotAChildMsg)
      ELSE IF ~isRoot(h, nodeToAdd) THEN Throw(h, AlreadyAttachedMsg)
      ELSE
        LET h1 == IF ~first
                  THEN [h EXCEPT ![nodeToAdd].prevSibling = h[existingNode].prevSibling]
                  ELSE h
            prev == h1[nodeToAdd].prevSibling
        IN
        \* nodeToAdd.prevSibling.nextSibling = nodeToAdd  on a null prevSibling
        IF ~first /\ prev = Null THEN Throw(h1, TypeErrorMsg)
        ELSE
          LET h2 == IF ~first THEN [h1 EXCEPT ![prev].nextSibling = nodeToAdd] ELSE h1
              h3 == [h2 EXCEPT ![nodeToAdd].nextSibling = existingNode]
              h4 == [h3 EXCEPT ![existingNode].prevSibling = nodeToAdd]
              h6 == IF first THEN [h4 EXCEPT ![parent].first = nodeToAdd] ELSE h4
          IN Return(h6, nodeToAdd)

\* addBefore that returns the existing sibling.
addBefore_retExisting(h, existingNode, nodeToAdd) ==
    LET parent == h[existingNode].parent IN
    \* const first = parent.first === existingNode  reads a property of parent
    IF parent = Null THEN Throw(h, TypeErrorMsg)
    ELSE
      LET first == (h[parent].first = existingNode) IN
      IF ~isValidChild(h, nodeToAdd) THEN Throw(h, InvalidChildMsg)
      ELSE IF ~isValidParent(h, parent) THEN Throw(h, InvalidParentMsg)
      ELSE IF ~isChild(h, existingNode) THEN Throw(h, NotAChildMsg)
      ELSE IF ~isRoot(h, nodeToAdd) THEN Throw(h, AlreadyAttachedMsg)
      ELSE
        LET h1 == IF ~first
                  THEN [h EXCEPT ![nodeToAdd].prevSibling = h[existingNode].prevSibling]
                  ELSE h
            prev == h1[nodeToAdd].prevSibling
        IN
        \* nodeToAdd.prevSibling.nextSibling = nodeToAdd  on a null prevSibling
        IF ~first /\ prev = Null THEN Throw(h1, TypeErrorMsg)
        ELSE
          LET h2 == IF ~first THEN [h1 EXCEPT ![prev].nextSibling = nodeToAdd] ELSE h1
              h3 == [h2 EXCEPT ![nodeToAdd].nextSibling = existingNode]
              h4 == [h3 EXCEPT ![existingNode].prevSibling = nodeToAdd]
              h5 == [h4 EXCEPT ![nodeToAdd].parent = parent]
              h6 == IF first THEN [h5 EXCEPT ![parent].first = nodeToAdd] ELSE h5
          IN Return(h6, existingNode)

\* addBefore that never updates parent.first.
addBefore_firstStale(h, existingNode, nodeToAdd) ==
    LET parent == h[existingNode].parent IN
    IF parent = Null THEN Throw(h, TypeErrorMsg)
    ELSE
      LET first == (h[parent].first = existingNode) IN
      IF ~isValidChild(h, nodeToAdd) THEN Throw(h, InvalidChildMsg)
      ELSE IF ~isValidParent(h, parent) THEN Throw(h, InvalidParentMsg)
      ELSE IF ~isChild(h, existingNode) THEN Throw(h, NotAChildMsg)
      ELSE IF ~isRoot(h, nodeToAdd) THEN Throw(h, AlreadyAttachedMsg)
      ELSE
        LET h1 == IF ~first
                  THEN [h EXCEPT ![nodeToAdd].prevSibling = h[existingNode].prevSibling]
                  ELSE h
            prev == h1[nodeToAdd].prevSibling
        IN
        IF ~first /\ prev = Null THEN Throw(h1, TypeErrorMsg)
        ELSE
          LET h2 == IF ~first THEN [h1 EXCEPT ![prev].nextSibling = nodeToAdd] ELSE h1
              h3 == [h2 EXCEPT ![nodeToAdd].nextSibling = existingNode]
              h4 == [h3 EXCEPT ![existingNode].prevSibling = nodeToAdd]
              h5 == [h4 EXCEPT ![nodeToAdd].parent = parent]
          IN Return(h5, nodeToAdd)

addBefore(h, existingNode, nodeToAdd) ==
    LET parent == h[existingNode].parent IN
    \* const first = parent.first === existingNode  reads a property of parent
    IF parent = Null THEN Throw(h, TypeErrorMsg)
    ELSE
      LET first == (h[parent].first = existingNode) IN
      IF ~isValidChild(h, nodeToAdd) THEN Throw(h, InvalidChildMsg)
      ELSE IF ~isValidParent(h, parent) THEN Throw(h, InvalidParentMsg)
      ELSE IF ~isChild(h, existingNode) THEN Throw(h, NotAChildMsg)
      ELSE IF ~isRoot(h, nodeToAdd) THEN Throw(h, AlreadyAttachedMsg)
      ELSE
        LET h1 == IF ~first
                  THEN [h EXCEPT ![nodeToAdd].prevSibling = h[existingNode].prevSibling]
                  ELSE h
            prev == h1[nodeToAdd].prevSibling
        IN
        \* nodeToAdd.prevSibling.nextSibling = nodeToAdd  on a null prevSibling
        IF ~first /\ prev = Null THEN Throw(h1, TypeErrorMsg)
        ELSE
          LET h2 == IF ~first THEN [h1 EXCEPT ![prev].nextSibling = nodeToAdd] ELSE h1
              h3 == [h2 EXCEPT ![nodeToAdd].nextSibling = existingNode]
              h4 == [h3 EXCEPT ![existingNode].prevSibling = nodeToAdd]
              h5 == [h4 EXCEPT ![nodeToAdd].parent = parent]
              h6 == IF first THEN [h5 EXCEPT ![parent].first = nodeToAdd] ELSE h5
          IN Return(h6, nodeToAdd)

\* ---------------------------------------------------------------------
\* State machine: a caller holding references to all nodes calls the
\* insertion operations with any pair of them, one call at a time.  result
\* is the outcome of the call that has just ended (the call, the error it
\* threw or the node it returned) until the caller goes on to its next
\* statement.

NoCall == [op |-> "none", a |-> Null, b |-> Null, error |-> NoError, ret |-> Null]

Outcome(name, x, y, r) ==
    [op |-> name, a |-> x, b |-> y, error |-> r.error, ret |-> r.ret]

\* Callers that run addLast statement by statement.  A caller is at the
\* statement pc of its call, "idle" before the call and "done" after it;
\* last is the local variable of index.ts:178; overlapped records that a
\* statement of another caller ran between the first and the last statement
\* of this call.
Threads == {"t1", "t2"}

IdleThread ==
    [pc |-> "idle", parent |-> Null, node |-> Null, last |-> Null,
     error |-> NoError, ret |-> Null, overlapped |-> FALSE]

NoThreads == [t \in Threads |-> IdleThread]

Init ==
    /\ heap = [n \in Nodes |-> createNode]
    /\ result = NoCall
    /\ threads = NoThreads

\* A node object built with arbitrary constructor arguments, the others
\* fresh.
InitCorrupt ==
    /\ \E c \in CorruptNodes :
       \E rec \in [parent : CorruptNodes \cup {Null},
                   first : CorruptNodes \cup {Null},
                   last : CorruptNodes \cup {Null},
                   nextSibling : CorruptNodes \cup {Null},
                   prevSibling : CorruptNodes \cup {Null}] :
          heap = [n \in CorruptNodes |-> IF n = c THEN rec ELSE createNode]
    /\ result = NoCall
    /\ threads = NoThreads

AddFirstCall(p, n) ==
    /\ result = NoCall
    /\ LET r == addFirst(heap, p, n) IN
       /\ heap' = r.heap
       /\ result' = Outcome("addFirst", p, n, r)
    /\ UNCHANGED threads

AddLastCall(p, n) ==
    /\ result = NoCall
    /\ LET r == addLast(heap, p, n) IN
       /\ heap' = r.heap
       /\ result' = Outcome("addLast", p, n, r)
    /\ UNCHANGED threads

AddAfterCall(e, n) ==
    /\ result = NoCall
    /\ LET r == addAfter(heap, e, n) IN
       /\ heap' = r.heap
       /\ result' = Outcome("addAfter", e, n, r)
    /\ UNCHANGED threads

AddBeforeCall(e, n) ==
    /\ result = NoCall
    /\ LET r == addBefore(heap, e, n) IN
       /\ heap' = r.heap
       /\ result' = Outcome("addBefore", e, n, r)
    /\ UNCHANGED threads

\* The caller takes the returned node (or catches the error) and goes on.
Continue ==
    /\ result # NoCall
    /\ result' = NoCall
    /\ UNCHANGED <<heap, threads>>

Next ==
    \/ \E a, b \in DOMAIN heap : AddFirstCall(a, b)
    \/ \E a, b \in DOMAIN heap : AddLastCall(a, b)
    \/ \E a, b \in DOMAIN heap : AddAfterCall(a, b)
    \/ \E a, b \in DOMAIN heap : AddBeforeCall(a, b)
    \/ Continue

Spec == Init /\ [][Next]_vars

\* One call of any operation on a heap holding an arbitrarily built node.
NextCorrupt ==
    \/ \E a, b \in DOMAIN heap : AddFirstCall(a, b)
    \/ \E a, b \in DOMAIN heap : AddLastCall(a, b)
    \/ \E a, b \in DOMAIN heap : AddAfterCall(a, b)
    \/ \E a, b \in DOMAIN heap : AddBeforeCall(a, b)

SpecCorrupt == InitCorrupt /\ [][NextCorrupt]_vars

\* Trees built by addLast calls alone, as Scenario 1 does.
NextAddLast ==
    \/ \E a, b \in DOMAIN heap : AddLastCall(a, b)
    \/ Continue

SpecAddLast == Init /\ [][NextAddLast]_vars

\* The constructors: each call returns a new object, numbered in creation
\* order.
InitCreate ==
    /\ heap = <<>>
    /\ result = NoCall
    /\ threads = NoThreads

CreateNodeCall ==
    /\ result = NoCall
    /\ Len(heap) < MaxObjects
    /\ heap' = Append(heap, createNode)
    /\ result' = Outcome("createNode", Null, Null, Return(heap', Len(heap')))
    /\ UNCHANGED threads

CreateRootCall ==
    /\ result = NoCall
    /\ Len(heap) < MaxObjects
    /\ heap' = Append(heap, createRoot)
    /\ result' = Outcome("createRoot", Null, Null, Return(heap', Len(heap')))
    /\ UNCHANGED threads

CreateLeafCall ==
    /\ result = NoCall
    /\ Len(heap) < MaxObjects
    /\ heap' = Append(heap, createLeaf)
    /\ result' = Outcome("createLeaf", Null, Null, Return(heap', Len(heap')))
    /\ UNCHANGED threads

NextCreate ==
    \/ CreateNodeCall
    \/ CreateRootCall
    \/ CreateLeafCall
    \/ Continue

SpecCreate == InitCreate /\ [][NextCreate]_vars

\* isParent called on a node of a heap that may hold an invalid node.
IsParentCall(n) ==
    /\ result = NoCall
    /\ LET r == isParent(heap, n) IN
       /\ heap' = r.heap
       /\ result' = Outcome("isParent", n, Null, r)
    /\ UNCHANGED threads

NextInspect ==
    \/ \E n \in DOMAIN heap : IsParentCall(n)

SpecInspect == InitCorrupt /\ [][NextInspect]_vars

\* ---------------------------------------------------------------------
\* addLast run statement by statement by two callers on one heap.  Each
\* action is one statement of index.ts:173-191 (an assert, a read into a
\* local, or one field write) of one caller; statements of the two callers
\* interleave in any order.

MidCall(u) == threads[u].pc \notin {"idle", "done"}

\* Caller t has run a statement and is now in state rec.
Stepped(t, rec) ==
    [u \in Threads |->
        IF u = t
        THEN [rec EXCEPT !.overlapped = @ \/ \E v \in Threads \ {t} : MidCall(v)]
        ELSE [threads[u] EXCEPT !.overlapped = @ \/ MidCall(u)]]

\* Caller t goes on to statement next.
At(t, next) == [threads[t] EXCEPT !.pc = next]

Failed(t, msg) == [threads[t] EXCEPT !.pc = "done", !.error = msg]

\* The heaps the two callers start on: fresh nodes, or fresh nodes after
\* addLast has made the second node a child of the first.
StartHeaps ==
    {[n \in Nodes |-> createNode],
     addLast([n \in Nodes |-> createNode], 1, 2).heap}

InitInterleave ==
    /\ heap \in StartHeaps
    /\ result = NoCall
    /\ threads = NoThreads

BeginAddLast(t, p, n) ==
    /\ threads[t].pc = "idle"
    /\ threads' = Stepped(t, [threads[t] EXCEPT !.pc = "173", !.parent = p, !.node = n])
    /\ UNCHANGED <<heap, result>>

AssertValidChild(t) ==
    /\ threads[t].pc = "173"
    /\ threads' = Stepped(t, IF isValidChild(heap, threads[t].node)
                             THEN At(t, "174")
                             ELSE Failed(t, InvalidChildMsg))
    /\ UNCHANGED <<heap, result>>

AssertValidParent(t) ==
    /\ threads[t].pc = "174"
    /\ threads' = Stepped(t, IF isValidParent(heap, threads[t].parent)
                             THEN At(t, "175")
                             ELSE Failed(t, InvalidParentMsg))
    /\ UNCHANGED <<heap, result>>

AssertIsRoot(t) ==
    /\ threads[t].pc = "175"
    /\ threads' = Stepped(t, IF isRoot(heap, threads[t].node)
                             THEN At(t, "178")
                             ELSE Failed(t, AlreadyAttachedMsg))
    /\ UNCHANGED <<heap, result>>

ReadLast(t) ==
    /\ threads[t].pc = "178"
    /\ LET last == heap[threads[t].parent].last IN
       threads' = Stepped(t, [threads[t] EXCEPT
                                 !.last = last,
                                 !.pc = IF last # Null THEN "180" ELSE "185"])
    /\ UNCHANGED <<heap, result>>

WritePrevSibling(t) ==
    /\ threads[t].pc = "180"
    /\ heap' = [heap EXCEPT ![threads[t].node].prevSibling = threads[t].last]
    /\ threads' = Stepped(t, At(t, "181"))
    /\ UNCHANGED result

\* The statement last.nextSibling = node left out.
WriteNextSibling_skipped(t) ==
    /\ threads[t].pc = "181"
    /\ threads' = Stepped(t, At(t, "185"))
    /\ UNCHANGED <<heap, result>>

WriteNextSibling(t) ==
    /\ threads[t].pc = "181"
    /\ heap' = [heap EXCEPT ![threads[t].last].nextSibling = threads[t].node]
    /\ threads' = Stepped(t, At(t, "185"))
    /\ UNCHANGED result

WriteParent(t) ==
    /\ threads[t].pc = "185"
    /\ heap' = [heap EXCEPT ![threads[t].node].parent = threads[t].parent]
    /\ threads' = Stepped(t, At(t, "186"))
    /\ UNCHANGED result

WriteLast(t) ==
    /\ threads[t].pc = "186"
    /\ heap' = [heap EXCEPT ![threads[t].parent].last = threads[t].node]
    /\ threads' = Stepped(t, At(t, "187"))
    /\ UNCHANGED result

ReadFirst(t) ==
    /\ threads[t].pc = "187"
    /\ threads' = Stepped(t, IF heap[threads[t].parent].first = Null
                             THEN At(t, "188")
                             ELSE At(t, "191"))
    /\ UNCHANGED <<heap, result>>

WriteFirst(t) ==
    /\ threads[t].pc = "188"
    /\ heap' = [heap EXCEPT ![threads[t].parent].first = threads[t].node]
    /\ threads' = Stepped(t, At(t, "191"))
    /\ UNCHANGED result

ReturnNode(t) ==
    /\ threads[t].pc = "191"
    /\ threads' = Stepped(t, [threads[t] EXCEPT !.pc = "done", !.ret = threads[t].node])
    /\ UNCHANGED <<heap, result>>

NextInterleave ==
    \/ \E t \in Threads : \E p, n \in DOMAIN heap : BeginAddLast(t, p, n)
    \/ \E t \in Threads : AssertValidChild(t)
    \/ \E t \in Threads : AssertValidParent(t)
    \/ \E t \in Threads : AssertIsRoot(t)
    \/ \E t \in Threads : ReadLast(t)
    \/ \E t \in Threads : WritePrevSibling(t)
    \/ \E t \in Threads : WriteNextSibling(t)
    \/ \E t \in Threads : WriteParent(t)
    \/ \E t \in Threads : WriteLast(t)
    \/ \E t \in Threads : ReadFirst(t)
    \/ \E t \in Threads : WriteFirst(t)
    \/ \E t \in Threads : ReturnNode(t)

SpecInterleave == InitInterleave /\ [][NextInterleave]_vars

\* ---------------------------------------------------------------------
\* Chains of children, as a caller walks them.

RECURSIVE Walk(_, _, _, _)
\* The nodes met from n by following field, at most fuel of them.
Walk(h, field, n, fuel) ==
    IF n = Null \/ fuel = 0 THEN <<>>
    ELSE <<n>> \o Walk(h, field, h[n][field], fuel - 1)

Children(h, P) == {n \in DOMAIN h : h[n].parent = P}

Forward(h, P) == Walk(h, "nextSibling", h[P].first, Cardinality(DOMAIN h) + 1)

Backward(h, P) == Walk(h, "prevSibling", h[P].last, Cardinality(DOMAIN h) + 1)

Reverse(s) == [i \in 1..Len(s) |-> s[Len(s) + 1 - i]]

Elems(s) == {s[i] : i \in 1..Len(s)}

\* ---------------------------------------------------------------------
\* C1: from fresh nodes, after any sequence of addFirst / addLast / addAfter /
\* addBefore calls, successful or failed, every node satisfies valid-parent
\* (first present iff last present) and valid-child (parent present, or no
\* sibling link).
C1_AllNodesValid ==
    \A n \in DOMAIN heap : isValidParent(heap, n) /\ isValidChild(heap, n)

\* A failed call on a structure holding an inner node with a next sibling.
C1_Witness ==
    /\ result.error # NoError
    /\ \E n \in DOMAIN heap :
          heap[n].parent # Null /\ heap[n].first # Null /\ heap[n].nextSibling # Null

\* C2: every parent P with N >= 1 children has one connected doubly-linked
\* chain: the forward walk from P.first and the backward walk from P.last
\* visit exactly P's N children, in opposite orders, ending at P.last and
\* P.first; P.first has no prevSibling, P.last no nextSibling, and
\* x.nextSibling.prevSibling = x for every child x other than P.last.
C2_ConnectedChain ==
    \A P \in DOMAIN heap :
        LET kids == Children(heap, P)
            N == Cardinality(kids)
            fwd == Forward(heap, P)
            bwd == Backward(heap, P)
        IN (N >= 1 \/ heap[P].first # Null \/ heap[P].last # Null) =>
            /\ N >= 1
            /\ Len(fwd) = N
            /\ Elems(fwd) = kids
            /\ fwd[1] = heap[P].first
            /\ fwd[N] = heap[P].last
            /\ bwd = Reverse(fwd)
            /\ heap[heap[P].first].prevSibling = Null
            /\ heap[heap[P].last].nextSibling = Null
            /\ \A x \in kids \ {heap[P].last} :
                  /\ heap[x].nextSibling # Null
                  /\ heap[heap[x].nextSibling].prevSibling = x

\* addAfter has spliced a node between two children.
C2_Witness ==
    /\ result.op = "addAfter"
    /\ result.error = NoError
    /\ heap[result.b].nextSibling # Null
    /\ Len(Forward(heap, heap[result.b].parent)) = 3

\* C3: whenever addFirst, addLast, addAfter or addBefore fails, with any
\* arguments, nodes built with inconsistent fields included, no field of any
\* node differs from its value before the call.
C3_FailureLeavesHeap ==
    [][result'.error # NoError => heap' = heap]_vars

\* addAfter has failed on the null nextSibling of an existing node that has a
\* parent and is not its last child: the failure that comes after a write.
C3_Witness ==
    /\ result.op = "addAfter"
    /\ result.error = TypeErrorMsg
    /\ heap[result.a].parent # Null

\* The parent an insertion call targets, in heap h: the first argument of
\* addFirst and addLast, the parent of the first argument of addAfter and
\* addBefore.
TargetParent(h, op, a) ==
    IF op \in {"addFirst", "addLast"} THEN a ELSE h[a].parent

\* C4: for each of the four operations, when the node to insert already has
\* a parent and the target parent is there and valid, the call fails with
\* "expect node to add not currently parented" and no field changes.
C4_AttachedNodeRejected ==
    [][(/\ result'.op # "none"
        /\ heap[result'.b].parent # Null
        /\ TargetParent(heap, result'.op, result'.a) # Null
        /\ isValidParent(heap, TargetParent(heap, result'.op, result'.a)))
       => (result'.error = AlreadyAttachedMsg /\ heap' = heap)]_vars

\* addBefore has been called with a node that is already somebody's child.
C4_Witness ==
    /\ result.op = "addBefore"
    /\ result.error = AlreadyAttachedMsg
    /\ heap[result.b].parent # Null
    /\ heap[result.a].parent # Null
    /\ heap[result.a].parent # heap[result.b].parent

\* C5: addAfter and addBefore called with an existingNode that has no parent
\* fail with the error "cannot add node as a sibling to a root".
C5_RootSiblingNotAChild ==
    [][(/\ result'.op \in {"addAfter", "addBefore"}
        /\ heap[result'.a].parent = Null)
       => result'.error = NotAChildMsg]_vars

\* C6: a successful addFirst(P, n) makes n the head of P's child list:
\* P.first = n, n.parent = P and n has no prevSibling; if P had a first child
\* F then n.nextSibling = F, F.prevSibling = n and P.last is unchanged; if P
\* was empty then P.last = n and n has no nextSibling.
C6_AddFirstHead ==
    [][(result'.op = "addFirst" /\ result'.error = NoError) =>
        LET P == result'.a
            n == result'.b
            F == heap[P].first
        IN /\ heap'[P].first = n
           /\ heap'[n].parent = P
           /\ heap'[n].prevSibling = Null
           /\ F # Null => /\ heap'[n].nextSibling = F
                          /\ heap'[F].prevSibling = n
                          /\ heap'[P].last = heap[P].last
           /\ F = Null => /\ heap'[P].last = n
                          /\ heap'[n].nextSibling = Null]_vars

\* addFirst has put a node in front of an existing first child.
C6_Witness ==
    /\ result.op = "addFirst"
    /\ result.error = NoError
    /\ heap[result.b].nextSibling # Null
    /\ heap[result.a].last # result.b

\* C7: a successful addLast(P, n) makes n the tail of P's child list:
\* P.last = n, n.parent = P and n has no nextSibling; if P had a last child L
\* then n.prevSibling = L, L.nextSibling = n and P.first is unchanged; P.first
\* becomes n only if P was empty.
C7_AddLastTail ==
    [][(result'.op = "addLast" /\ result'.error = NoError) =>
        LET P == result'.a
            n == result'.b
            L == heap[P].last
        IN /\ heap'[P].last = n
           /\ heap'[n].parent = P
           /\ heap'[n].nextSibling = Null
           /\ L # Null => /\ heap'[n].prevSibling = L
                          /\ heap'[L].nextSibling = n
                          /\ heap'[P].first = heap[P].first
           /\ heap'[P].first = n => heap[P].first = Null /\ L = Null]_vars

\* addLast has put a node behind an existing last child.
C7_Witness ==
    /\ result.op = "addLast"
    /\ result.error = NoError
    /\ heap[result.b].prevSibling # Null
    /\ heap[result.a].first # result.b

\* C8: a successful addAfter(B, X), with P = B.parent, places X right after
\* B: X.prevSibling = B, B.nextSibling = X and X.parent = P; if B was P.last
\* then X is the new P.last and has no nextSibling; otherwise, with S the old
\* nextSibling of B, X.nextSibling = S, S.prevSibling = X and P.last is
\* unchanged.
C8_AddAfterPlaces ==
    [][(result'.op = "addAfter" /\ result'.error = NoError) =>
        LET B == result'.a
            X == result'.b
            P == heap[B].parent
            S == heap[B].nextSibling
        IN /\ P # Null
           /\ heap'[X].prevSibling = B
           /\ heap'[B].nextSibling = X
           /\ heap'[X].parent = P
           /\ heap[P].last = B => /\ heap'[P].last = X
                                  /\ heap'[X].nextSibling = Null
           /\ heap[P].last # B => /\ S # Null
                                  /\ heap'[X].nextSibling = S
                                  /\ heap'[S].prevSibling = X
                                  /\ heap'[P].last = heap[P].last]_vars

\* addAfter has spliced X between a child and its next sibling, under a
\* parent that is none of the three.
C8_Witness ==
    /\ result.op = "addAfter"
    /\ result.error = NoError
    /\ heap[result.b].nextSibling # Null
    /\ heap[result.b].parent \notin {result.a, result.b, heap[result.b].nextSibling}

\* C9: a successful addBefore(C, B), with P = C.parent, places B right
\* before C: B.nextSibling = C, C.prevSibling = B and B.parent = P; P.first
\* becomes B exactly when C was P.first; otherwise P.first is unchanged and
\* the old prevSibling A of C has A.nextSibling = B and B.prevSibling = A.
C9_AddBeforePlaces ==
    [][(result'.op = "addBefore" /\ result'.error = NoError) =>
        LET C == result'.a
            B == result'.b
            P == heap[C].parent
            A == heap[C].prevSibling
        IN /\ P # Null
           /\ heap'[B].nextSibling = C
           /\ heap'[C].prevSibling = B
           /\ heap'[B].parent = P
           /\ (heap'[P].first = B) <=> (heap[P].first = C)
           /\ heap[P].first # C => /\ heap'[P].first = heap[P].first
                                   /\ A # Null
                                   /\ heap'[A].nextSibling = B
                                   /\ heap'[B].prevSibling = A]_vars

\* addBefore has turned the chain [A, C] of a parent into [A, B, C].
C9_Witness ==
    /\ result.op = "addBefore"
    /\ result.error = NoError
    /\ LET C == result.a
           B == result.b
           P == heap[B].parent
       IN /\ heap[B].prevSibling # Null
          /\ P \notin {B, C, heap[B].prevSibling}
          /\ Forward(heap, P) = <<heap[B].prevSibling, B, C>>

\* All fields of n are absent, as createNode leaves them.
Fresh(h, n) == h[n] = createNode

\* The sequences of distinct elements of S.
DistinctSeqs(S) ==
    {s \in UNION {[1..m -> S] : m \in 1..Cardinality(S)} :
        \A i, j \in 1..Len(s) : s[i] = s[j] => i = j}

RECURSIVE AddLastAll(_, _, _)
\* addLast(R, s[1]); ...; addLast(R, s[k]): the heap left, and whether every
\* call returned its node.
AddLastAll(h, R, s) ==
    IF s = <<>> THEN [heap |-> h, ok |-> TRUE]
    ELSE LET r == addLast(h, R, Head(s))
             rest == AddLastAll(r.heap, R, Tail(s))
         IN [heap |-> rest.heap,
             ok |-> r.error = NoError /\ r.ret = Head(s) /\ rest.ok]

\* C10: k consecutive addLast calls that insert distinct fresh nodes n1..nk
\* into an empty parent R yield the sibling order of the calls: R.first = n1,
\* ni.nextSibling = n(i+1), nk = R.last, n(i+1).prevSibling = ni and n1 has
\* no prevSibling.
C10_AddLastOrder ==
    \A R \in DOMAIN heap :
        (heap[R].first = Null /\ heap[R].last = Null) =>
        \A s \in DistinctSeqs({n \in DOMAIN heap \ {R} : Fresh(heap, n)}) :
            LET r == AddLastAll(heap, R, s)
                h == r.heap
                k == Len(s)
            IN /\ r.ok
               /\ h[R].first = s[1]
               /\ h[R].last = s[k]
               /\ h[s[1]].prevSibling = Null
               /\ \A i \in 1..(k - 1) :
                     /\ h[s[i]].nextSibling = s[i + 1]
                     /\ h[s[i + 1]].prevSibling = s[i]

\* Three addLast calls have filled a root with three children.
C10_Witness ==
    /\ result.op = "addLast"
    /\ result.error = NoError
    /\ heap[result.a].parent = Null
    /\ Len(Forward(heap, result.a)) = 3
    /\ result.a \notin Elems(Forward(heap, result.a))
    /\ Forward(heap, result.a)[3] = result.b

\* C11: once a successful insertion has set the parent of a node, no later
\* call, successful or failed, changes it: the node is never detached nor
\* given another parent.
C11_ParentNeverChanges ==
    [][\A n \in DOMAIN heap :
          heap[n].parent # Null => heap'[n].parent = heap[n].parent]_vars

\* A second insertion has succeeded under the parent of an attached node,
\* and a third node is attached elsewhere.
C11_Witness ==
    /\ result.op # "none"
    /\ result.error = NoError
    /\ \E n, m \in DOMAIN heap \ {result.ret} :
          /\ heap[n].parent = heap[result.ret].parent
          /\ heap[m].parent \notin {Null, heap[n].parent}

\* ---------------------------------------------------------------------
\* The traversal of Scenario 1: first child, else the next sibling of the
\* nearest ancestor-or-self that has one.

\* Stands for a loop that never ends.
NoEnd == Null - 1

RECURSIVE ascend(_, _, _)
\* while (parent && !parent.nextSibling) parent = parent.parent
ascend(h, parent, fuel) ==
    IF parent = Null THEN Null
    ELSE IF h[parent].nextSibling # Null THEN parent
    ELSE IF fuel = 0 THEN NoEnd
    ELSE ascend(h, h[parent].parent, fuel - 1)

\* The step without the climb to an ancestor that has a next sibling.
nextNode_noAscend(h, node) ==
    IF h[node].first # Null THEN h[node].first
    ELSE h[node].nextSibling

\* The value of node after one round of the outer loop.
nextNode(h, node) ==
    IF h[node].first # Null THEN h[node].first
    ELSE LET parent == ascend(h, node, Cardinality(DOMAIN h))
         IN IF parent = Null THEN Null
            ELSE IF parent = NoEnd THEN NoEnd
            ELSE h[parent].nextSibling

RECURSIVE traverse(_, _, _)
\* The nodes printed from node on, and whether the loop ends; a loop that
\* prints more nodes than there are never ends.
traverse(h, node, fuel) ==
    IF node = Null THEN [printed |-> <<>>, ends |-> TRUE]
    ELSE IF node = NoEnd \/ fuel = 0 THEN [printed |-> <<>>, ends |-> FALSE]
    ELSE LET rest == traverse(h, nextNode(h, node), fuel - 1)
         IN [printed |-> <<node>> \o rest.printed, ends |-> rest.ends]

Traversal(h, root) == traverse(h, root, Cardinality(DOMAIN h) + 1)

RECURSIVE PreOrder(_, _, _)
RECURSIVE PreOrderAll(_, _, _)
\* n, then the pre-orders of its children in chain order.
PreOrder(h, n, depth) ==
    IF depth = 0 THEN <<n>>
    ELSE <<n>> \o PreOrderAll(h, Forward(h, n), depth - 1)

PreOrderAll(h, kids, depth) ==
    IF kids = <<>> THEN <<>>
    ELSE PreOrder(h, Head(kids), depth) \o PreOrderAll(h, Tail(kids), depth)

\* The nodes of the tree under root: those whose parent chain meets root.
Tree(h, root) ==
    {n \in DOMAIN h : root \in Elems(Walk(h, "parent", n, Cardinality(DOMAIN h) + 1))}

\* Scenario 1: thirteen fresh nodes, numbered in creation order, with the
\* value i each is given, and the twelve addLast calls as <<parent, node>>.
Scenario1Labels == <<0, 1, 2, 3, 11, 12, 13, 21, 22, 23, 31, 32, 33>>

Scenario1Calls ==
    << <<1, 2>>, <<1, 3>>, <<1, 4>>,
       <<2, 5>>, <<2, 6>>, <<2, 7>>,
       <<3, 8>>, <<3, 9>>, <<3, 10>>,
       <<4, 11>>, <<4, 12>>, <<4, 13>> >>

RECURSIVE AddLastCalls(_, _)
AddLastCalls(h, calls) ==
    IF calls = <<>> THEN h
    ELSE AddLastCalls(addLast(h, Head(calls)[1], Head(calls)[2]).heap, Tail(calls))

Scenario1Heap ==
    AddLastCalls([n \in 1..Len(Scenario1Labels) |-> createNode], Scenario1Calls)

\* The traversal of Scenario 1, from its root.
Scenario1Run == Traversal(Scenario1Heap, 1)

\* What Scenario 1 prints.
Scenario1Output ==
    [i \in 1..Len(Scenario1Run.printed) |-> Scenario1Labels[Scenario1Run.printed[i]]]

\* Scenario 1 ends and prints its thirteen nodes in pre-order.
Scenario1PrintsPreOrder ==
    /\ Scenario1Run.ends
    /\ Scenario1Output = <<0, 1, 11, 12, 13, 2, 21, 22, 23, 3, 31, 32, 33>>

\* C12: in every structure built from fresh nodes by insertions, the
\* traversal the caller starts between two calls at a root (a node without
\* parent) ends and prints every node of the root's tree exactly once, in
\* pre-order; for the three-level tree of Scenario 1 it prints
\* 0,1,11,12,13,2,21,22,23,3,31,32,33.
C12_TraversalPreOrder ==
    /\ \A R \in DOMAIN heap :
          (result = NoCall /\ heap[R].parent = Null) =>
             LET t == Traversal(heap, R)
             IN /\ t.ends
                /\ t.printed = PreOrder(heap, R, Cardinality(DOMAIN heap))
                /\ Elems(t.printed) = Tree(heap, R)
                /\ Len(t.printed) = Cardinality(Tree(heap, R))
    /\ Scenario1PrintsPreOrder

\* A root with a child that has two children of its own.
C12_Witness ==
    \E R \in DOMAIN heap :
        /\ result = NoCall
        /\ heap[R].parent = Null
        /\ Len(Traversal(heap, R).printed) = 4
        /\ Len(Forward(heap, R)) = 1
        /\ Len(Forward(heap, heap[R].first)) = 2

\* The fields of the roles an object returned by a constructor has.
RoleFields(name) ==
    CASE name = "createNode" ->
            {"parent", "first", "last", "nextSibling", "prevSibling"}
      [] name = "createRoot" -> {"first", "last"}
      [] name = "createLeaf" -> {"parent", "nextSibling", "prevSibling"}

\* C13: every object returned by createNode, createRoot or createLeaf is
\* detached and valid: it has the fields of its roles, all of them absent, so
\* isValidParent (Parent role), isValidChild (Child and Sibling roles) and
\* isValidNode (all roles) hold of it, and isRoot is true of it.
C13_ConstructedDetachedValid ==
    result.op \in {"createNode", "createRoot", "createLeaf"} =>
        LET n == result.ret
            fields == RoleFields(result.op)
        IN /\ result.error = NoError
           /\ n \in DOMAIN heap
           /\ DOMAIN heap[n] = fields
           /\ \A f \in fields : heap[n][f] = Null
           /\ isRoot(heap, n)
           /\ "first" \in fields => isValidParent(heap, n)
           /\ "parent" \in fields => isValidChild(heap, n)
           /\ result.op = "createNode" => isValidNode(heap, n)

\* createLeaf has returned the third object, after a node and a root.
C13_Witness ==
    /\ result.op = "createLeaf"
    /\ result.ret = 3
    /\ heap[1] = createNode
    /\ heap[2] = createRoot

\* C14: isParent(node) fails with "cannot check if node is parent: node is
\* invalid" when exactly one of node.first and node.last is present, and
\* otherwise returns true iff node.first is present; either way no field of
\* any node changes.
C14_IsParentContract ==
    [][result'.op = "isParent" =>
          LET n == result'.a
              hasFirst == heap[n].first # Null
              hasLast == heap[n].last # Null
          IN /\ heap' = heap
             /\ IF hasFirst # hasLast
                THEN result'.error = InvalidIsParentMsg
                ELSE /\ result'.error = NoError
                     /\ result'.ret = IF hasFirst THEN JsTrue ELSE JsFalse]_vars

\* isParent has failed on a node that has a first child and no last child.
C14_Witness ==
    /\ result.op = "isParent"
    /\ result.error = InvalidIsParentMsg
    /\ heap[result.a].first # Null
    /\ heap[result.a].last = Null

\* C15: every successful call of addFirst, addLast, addAfter and addBefore
\* returns the inserted node (its second argument), not the parent or the
\* existing sibling.
C15_ReturnsInsertedNode ==
    (result.op \in {"addFirst", "addLast", "addAfter", "addBefore"}
       /\ result.error = NoError) =>
        /\ result.ret = result.b
        /\ result.ret # result.a \/ result.a = result.b
        /\ heap[result.ret].parent = TargetParent(heap, result.op, result.a)

\* addBefore has returned after inserting a node before an existing child
\* that is not the inserted node.
C15_Witness ==
    /\ result.op = "addBefore"
    /\ result.error = NoError
    /\ result.a # result.b
    /\ result.ret = result.b

\* The error the stated order of precondition checks gives for a call of op
\* with arguments a, b in heap h: that of the first failing check, NoError
\* when no check fails.
FirstFailingCheck(h, op, a, b) ==
    LET P == TargetParent(h, op, a) IN
    IF ~isValidChild(h, b) THEN InvalidChildMsg
    ELSE IF P # Null /\ ~isValidParent(h, P) THEN InvalidParentMsg
    ELSE IF op \in {"addAfter", "addBefore"} /\ ~isChild(h, a) THEN NotAChildMsg
    ELSE IF ~isRoot(h, b) THEN AlreadyAttachedMsg
    ELSE NoError

\* C16: the preconditions of an insertion are checked in the order
\* invalid-child, invalid-parent, (addAfter / addBefore) not-a-child,
\* already-attached, and a call for which one of them fails throws the error
\* of the first failing one.
C16_FirstFailingCheckReported ==
    [][result'.op \in {"addFirst", "addLast", "addAfter", "addBefore"} =>
          LET expected ==
                  FirstFailingCheck(heap, result'.op, result'.a, result'.b)
          IN expected # NoError => result'.error = expected]_vars

\* The same for the calls whose target parent is there: addFirst and addLast,
\* and addAfter and addBefore on an existing node that has a parent.
C16_OrderWithParentPresent ==
    [][(/\ result'.op \in {"addFirst", "addLast", "addAfter", "addBefore"}
        /\ TargetParent(heap, result'.op, result'.a) # Null) =>
          LET expected ==
                  FirstFailingCheck(heap, result'.op, result'.a, result'.b)
          IN expected # NoError => result'.error = expected]_vars

\* addAfter on an existing node with a parent has reported the invalid parent
\* although the node to add is attached as well.
C16_OrderWitness ==
    /\ result.op = "addAfter"
    /\ result.error = InvalidParentMsg
    /\ heap[result.a].parent # Null
    /\ heap[result.b].parent # Null

\* The nodes reached from n by following parent references one or more
\* times.
Ancestors(h, n) == Elems(Walk(h, "parent", h[n].parent, Cardinality(DOMAIN h)))

\* C17: in every state reachable from fresh nodes the parent relation is
\* acyclic: no node reaches itself by following parent references one or
\* more times.
C17_ParentAcyclic ==
    \A n \in DOMAIN heap : n \notin Ancestors(heap, n)

\* The same after calls that do not put a node under itself or under one of
\* its own descendants.
C17_AcyclicUnlessInsertedBelowItself ==
    [][(/\ C17_ParentAcyclic
        /\ result'.error = NoError
        /\ result'.op \in {"addFirst", "addLast", "addAfter", "addBefore"}
        /\ LET P == TargetParent(heap, result'.op, result'.a)
           IN result'.b # P /\ result'.b \notin Ancestors(heap, P))
       => C17_ParentAcyclic']_vars

\* C18: in every state reachable from fresh nodes, a node n has
\* n.parent = P if and only if n lies on the chain from P.first along
\* nextSibling, and no node is twice on one chain (the chain has as many
\* places as P has children); a node has one parent field, so no node is on
\* the chains of two parents.  Every reachable heap is looked at once, when
\* the caller has gone on from the call that produced it.
C18_ParentIffOnChain ==
    result = NoCall =>
        \A P \in DOMAIN heap :
            LET chain == Forward(heap, P)
                kids == Children(heap, P)
            IN /\ Elems(chain) = kids
               /\ Len(chain) = Cardinality(kids)

\* A root with two children, one of which has a child.
C18_Witness ==
    /\ result = NoCall
    /\ \E P, Q \in DOMAIN heap :
          /\ heap[P].parent = Null
          /\ heap[Q].parent = P
          /\ Len(Forward(heap, P)) = 2
          /\ Len(Forward(heap, Q)) = 1

\* Sequence s with x put in after its first i elements.
InsertAt(s, i, x) == SubSeq(s, 1, i) \o <<x>> \o SubSeq(s, i + 1, Len(s))

\* What a successful insertion of n under P may change between heaps h and
\* g: n's parent and sibling fields, P.first and P.last, and one sibling
\* link of each of at most two neighbours of n; n's own first and last, the
\* parent of every other node and the child list of every other parent stay,
\* and P's child sequence is its old one with n put in at one position.
FrameOfInsertion(h, g, P, n) ==
    LET others == DOMAIN h \ {n}
        touched == {m \in others :
                       \/ g[m].nextSibling # h[m].nextSibling
                       \/ g[m].prevSibling # h[m].prevSibling}
    IN /\ g[n].first = h[n].first
       /\ g[n].last = h[n].last
       /\ \A m \in others : g[m].parent = h[m].parent
       /\ \A m \in others \ {P} :
             g[m].first = h[m].first /\ g[m].last = h[m].last
       /\ Cardinality(touched) <= 2
       /\ \A m \in touched :
             \/ /\ g[m].nextSibling = n
                /\ g[n].prevSibling = m
                /\ g[m].prevSibling = h[m].prevSibling
             \/ /\ g[m].prevSibling = n
                /\ g[n].nextSibling = m
                /\ g[m].nextSibling = h[m].nextSibling
       /\ \A Q \in DOMAIN h \ {P} : Forward(g, Q) = Forward(h, Q)
       /\ \E i \in 0..Len(Forward(h, P)) :
             Forward(g, P) = InsertAt(Forward(h, P), i, n)

\* C19: a successful insertion of node n under parent P changes nothing
\* outside the frame of FrameOfInsertion.
C19_InsertionFrame ==
    [][(/\ result'.op \in {"addFirst", "addLast", "addAfter", "addBefore"}
        /\ result'.error = NoError) =>
          FrameOfInsertion(heap, heap',
                           TargetParent(heap, result'.op, result'.a),
                           result'.b)]_vars

\* The same for insertions of a node under another node.
C19_FrameUnlessInsertedUnderItself ==
    [][(/\ result'.op \in {"addFirst", "addLast", "addAfter", "addBefore"}
        /\ result'.error = NoError
        /\ result'.b # TargetParent(heap, result'.op, result'.a)) =>
          FrameOfInsertion(heap, heap',
                           TargetParent(heap, result'.op, result'.a),
                           result'.b)]_vars

\* No caller is inside a call.
AtRest == \A t \in Threads : ~MidCall(t)

\* Heap h after the call of caller t, if it has made one, run as a whole.
AfterAtomic(h, t) ==
    IF threads[t].pc = "done"
    THEN addLast(h, threads[t].parent, threads[t].node).heap
    ELSE h

\* C20: two addLast calls run statement by statement keep the connected
\* chain of C2 whenever each call ran from its first to its last statement
\* with no statement of the other call in between (each call atomic), and
\* the heap is then the one the calls give when run as a whole one after
\* the other; only calls whose statements interleave can return with the
\* chain broken.
C20_AtomicCallsKeepChain ==
    (AtRest /\ \A t \in Threads : ~threads[t].overlapped) =>
        /\ C2_ConnectedChain
        /\ heap \in {AfterAtomic(AfterAtomic(h, s[1]), s[2]) :
                        h \in StartHeaps,
                        s \in {q \in DistinctSeqs(Threads) :
                                 Len(q) = Cardinality(Threads)}}
        /\ \A t \in Threads :
              (threads[t].pc = "done" /\ threads[t].error = NoError) =>
                  /\ threads[t].ret = threads[t].node
                  /\ heap[threads[t].node].parent = threads[t].parent

\* Two interleaved addLast calls with different fresh nodes on the same
\* parent have both returned their node, and the chain of that parent is
\* broken: one of the nodes has the parent and is not reached from its first.
C20_Witness ==
    /\ AtRest
    /\ \A t \in Threads : threads[t].error = NoError /\ threads[t].ret = threads[t].node
    /\ threads["t1"].parent = threads["t2"].parent
    /\ threads["t1"].node # threads["t2"].node
    /\ threads["t1"].overlapped /\ threads["t2"].overlapped
    /\ ~C2_ConnectedChain
    /\ \E t \in Threads :
          /\ heap[threads[t].node].parent = threads[t].parent
          /\ threads[t].node \notin Elems(Forward(heap, threads[t].parent))

====
